---------------------------- MODULE Spec2Model ----------------------------
(***************************************************************************)
(* Shopify "orders/paid" webhook receiver that records one cashback row    *)
(* per order.  Two variants of the handler are modelled side by side:      *)
(*   "api"  = src/api/shopify-orders-paid.js  (upsert on conflict)         *)
(*   "part" = src/unnamed/part_000            (insert if absent)           *)
(* The variant and the environment (secret, allowed domain, percent) are   *)
(* fixed at process start; requests are handled by concurrent invocations  *)
(* of the handler in one Node process, interleaving at each await (of the  *)
(* request body, of a storage call).  Money is counted in cents.           *)
(***************************************************************************)
EXTENDS Integers, Sequences, FiniteSets, TLC

VARIABLES
  variant,        \* which source file's handler runs in this process
  secret,         \* SHOPIFY_WEBHOOK_SECRET
  allowedDomain,  \* ALLOWED_SHOPIFY_DOMAIN
  percentEnv,     \* LSC_CASHBACK_PERCENT
  tableReady,     \* module-level flag of ensureTable
  schema,         \* the objects the DDL statements have created
  table,          \* rows of lsc_cashback_events
  now,            \* the database clock, read by DEFAULT NOW()
  pc,             \* per invocation: where the handler is suspended
  req,            \* per invocation: the request being handled
  last,           \* the latest completed invocation: request and outcome
  delivered       \* number of requests delivered so far

vars == <<variant, secret, allowedDomain, percentEnv, tableReady, schema,
          table, now, pc, req, last, delivered>>

env == <<variant, secret, allowedDomain, percentEnv>>

(***************************************************************************)
(* Bounds of the model.                                                    *)
(***************************************************************************)
NumProcs == 2
MaxRequests == 2

Procs == 1..NumProcs

(***************************************************************************)
(* JavaScript values.  A header or a body field that is not there is       *)
(* Absent (undefined); a number that is not a number is NaN.               *)
(***************************************************************************)
Absent == "<absent>"
NaN == -999999

Truthy(v) == v # Absent /\ v # ""

\* a || b  and  a ?? b  on strings
Or(a, b) == IF Truthy(a) THEN a ELSE b
Nullish(a, b) == IF a # Absent THEN a ELSE b

\* String.prototype.toLowerCase on the header values in use
ToLower(s) ==
  CASE s = "SHOP.Example.com" -> "shop.example.com"
    [] s = "" -> ""
    [] OTHER -> s

\* String.prototype.includes on the topics in use
Includes(s, sub) ==
  CASE sub = "orders/paid" -> s = "orders/paid"
    [] sub = "order" -> s \in {"orders/paid", "orders/updated"}
    [] OTHER -> FALSE

\* Number(x) of the amount strings in use, in cents
NumberOf(s) ==
  CASE s = "200.00" -> 20000
    [] s = "250.00" -> 25000
    [] s = "0.30" -> 30
    [] s = "0" -> 0
    [] s = "" -> 0
    [] OTHER -> NaN

\* Number.isFinite(x) / isFinite(x)
IsFinite(x) == x # NaN

\* x > 0, false of NaN
Positive(x) == x # NaN /\ x > 0

\* The totals at which total * (pct / 100), an exact half cent in decimal,
\* is a double below the half cent: 0.30 * 0.05 is 0.01499999..., 0.35 * 0.1
\* is 0.03499999...  Listed for the totals below 3.00; none of the larger
\* amounts in use (200.00, 250.00) falls on a half cent.
BelowHalfCent(pct) ==
  CASE pct = 5 -> {30, 70, 230, 290}
    [] pct = 10 -> {15, 35, 115, 145, 205, 215}
    [] OTHER -> {}

\* Number((total * (pct / 100)).toFixed(2)), in cents: toFixed rounds the
\* double product to the nearest cent, and takes the larger cent when the
\* double is exactly half way
ToFixed2(total, pct) ==
  IF total = NaN \/ pct = NaN THEN NaN
  ELSE IF total \in BelowHalfCent(pct) THEN (total * pct) \div 100
  ELSE (2 * total * pct + 100) \div 200

(***************************************************************************)
(* Request bodies.                                                         *)
(***************************************************************************)
Blank ==
  [kind |-> "object", id |-> Absent, order_id |-> Absent,
   email |-> Absent, customer_email |-> Absent, address_email |-> Absent,
   currency |-> Absent, presentment_currency |-> Absent, sm_currency |-> Absent,
   total_price |-> Absent, current_total_price |-> Absent, sm_amount |-> Absent]

Bodies ==
  << [Blank EXCEPT !.id = "1001", !.total_price = "200.00", !.currency = "EUR"],
     [Blank EXCEPT !.id = "1001", !.total_price = "250.00", !.currency = "EUR",
                   !.email = "a@example.com"],
     [Blank EXCEPT !.order_id = "1002", !.current_total_price = "0.30",
                   !.presentment_currency = "GBP", !.customer_email = "b@example.com"],
     [Blank EXCEPT !.id = "1002", !.total_price = "200.00", !.sm_amount = "0.30",
                   !.sm_currency = "CAD", !.currency = "EUR"],
     [Blank EXCEPT !.id = "1002", !.total_price = "0"],
     [Blank EXCEPT !.total_price = "200.00"],
     [Blank EXCEPT !.id = "1002", !.total_price = "abc"],
     [Blank EXCEPT !.kind = "malformed"],
     [Blank EXCEPT !.kind = "null"],
     \* the request stream fails before the body is complete
     [Blank EXCEPT !.kind = "aborted"] >>

BodyIds == 1..Len(Bodies)

(***************************************************************************)
(* Signature headers.  The base64 HMAC-SHA256 of a body under a key is a   *)
(* 44 character string determined by (key, body) and by nothing else.      *)
(***************************************************************************)
Digest(key, b) == [kind |-> "digest", key |-> key, body |-> b]
NoHeader == [kind |-> "absent", key |-> "", body |-> 0]
EmptyHeader == [kind |-> "empty", key |-> "", body |-> 0]
ShortHeader == [kind |-> "short", key |-> "", body |-> 0]

\* Buffer.from(h || "", "utf8").length
ByteLength(h) ==
  CASE h.kind = "digest" -> 44
    [] h.kind = "short" -> 7
    [] OTHER -> 0


(***************************************************************************)
(* Requests.                                                               *)
(***************************************************************************)
GoodKey == "shpss_key"
Secrets == {"", GoodKey}
AllowedDomains == {"", "shop.example.com"}
Percents == {10, NaN}
Variants == {"api", "part"}

DomainHeaders == {"SHOP.Example.com", "evil.example.com"}
TopicHeaders == {Absent, "orders/paid", "orders/updated", "products/update"}

\* the signature headers a sender may attach to body b
HmacHeaders(b) ==
  {NoHeader, EmptyHeader, ShortHeader, Digest(GoodKey, b),
   Digest(GoodKey, (b % Len(Bodies)) + 1), Digest("", b)}

Requests ==
  {[method |-> "GET", domain |-> "SHOP.Example.com", topic |-> "orders/paid",
    hmac |-> Digest(GoodKey, 1), body |-> 1]}
  \cup
  UNION {{[method |-> "POST", domain |-> d, topic |-> t, hmac |-> h, body |-> b] :
            d \in DomainHeaders, t \in TopicHeaders, h \in HmacHeaders(b)} :
         b \in BodyIds}

NoReq == [method |-> "", domain |-> "", topic |-> "", hmac |-> NoHeader, body |-> 0]

(***************************************************************************)
(* Payload normalisation and the cashback amount, per variant.             *)
(***************************************************************************)
Null == "<null>"

\* const cashbackPercent = Number.isFinite(LSC_CASHBACK_PERCENT) ? LSC_CASHBACK_PERCENT : 5
CashbackPercent == IF IsFinite(percentEnv) THEN percentEnv ELSE 5

\* String(payload?.id ?? payload?.order_id ?? "")
ApiOrderId(b) == Nullish(Nullish(b.id, b.order_id), "")

\* payload?.email || payload?.customer?.email || payload?.customer?.default_address?.email || null
ApiCustomerEmail(b) == Or(b.email, Or(b.customer_email, Or(b.address_email, Null)))

\* payload?.currency || payload?.presentment_currency || "USD"
ApiCurrency(b) == Or(b.currency, Or(b.presentment_currency, "USD"))

\* Number(total_price || current_total_price || total_price_set.shop_money.amount || "0")
ApiTotalPaid(b) ==
  NumberOf(Or(b.total_price, Or(b.current_total_price, Or(b.sm_amount, "0"))))

\* String(payload.id || "")
PartOrderId(b) == Or(b.id, "")

\* payload?.email || payload?.customer?.email || null
PartCustomerEmail(b) == Or(b.email, Or(b.customer_email, Null))

\* total_price_set.shop_money.currency_code || currency || presentment_currency || "USD"
PartCurrency(b) == Or(b.sm_currency, Or(b.currency, Or(b.presentment_currency, "USD")))

\* Number(payload?.total_price_set?.shop_money?.amount ?? payload?.total_price ?? 0)
PartTotalPaid(b) == NumberOf(Nullish(Nullish(b.sm_amount, b.total_price), "0"))

OrderIdOf(b) == IF variant = "api" THEN ApiOrderId(b) ELSE PartOrderId(b)
CustomerEmailOf(b) == IF variant = "api" THEN ApiCustomerEmail(b) ELSE PartCustomerEmail(b)
CurrencyOf(b) == IF variant = "api" THEN ApiCurrency(b) ELSE PartCurrency(b)
TotalPaidOf(b) == IF variant = "api" THEN ApiTotalPaid(b) ELSE PartTotalPaid(b)

\* String(req.headers["x-shopify-shop-domain"] || "").toLowerCase()
ShopDomain(r) == ToLower(Or(r.domain, ""))

\* the VALUES list of the INSERT statement built for request r
InsertValues(r) ==
  LET b == Bodies[r.body] IN
  [order_id |-> OrderIdOf(b),
   shop_domain |-> ShopDomain(r),
   customer_email |-> CustomerEmailOf(b),
   currency |-> CurrencyOf(b),
   total_paid |-> TotalPaidOf(b),
   cashback_percent |-> CashbackPercent,
   cashback_amount |-> ToFixed2(TotalPaidOf(b), CashbackPercent),
   raw |-> r.body]

(***************************************************************************)
(* The handler up to its first storage call.  An outcome is the response   *)
(* status (0: the handler threw and sent none), whether the handler goes   *)
(* on to storage, and whether an HMAC was computed on the way.             *)
(***************************************************************************)
Outcome(s, go, h) == [status |-> s, proceed |-> go, hmac |-> h]

\* if (ALLOWED_SHOPIFY_DOMAIN && shopDomain !== ALLOWED_SHOPIFY_DOMAIN)
ApiDomainRejected(r) == allowedDomain # "" /\ ShopDomain(r) # allowedDomain

\* if (!ALLOWED_SHOPIFY_DOMAIN || shop !== ALLOWED_SHOPIFY_DOMAIN)
PartDomainRejected(r) == allowedDomain = "" \/ ShopDomain(r) # allowedDomain

\* verifyShopifyHmac: "true", "false", or "throw" when crypto.timingSafeEqual
\* is handed buffers of different byte length (RangeError)
VerifyShopifyHmac(r) ==
  IF secret = "" THEN "false"
  ELSE IF ByteLength(r.hmac) # 44 THEN "throw"
  ELSE IF r.hmac = Digest(secret, r.body) THEN "true"
  ELSE "false"

\* a comparison against a digest that does not depend on the body
TimingSafeEqualKeyOnly(r) == ByteLength(r.hmac) = 44 /\ r.hmac.key = secret

\* timingSafeEqualStr(digest, hmac)
TimingSafeEqualStr(r) ==
  IF ByteLength(r.hmac) # 44 THEN FALSE
  ELSE r.hmac = Digest(secret, r.body)

\* !topic || (!topic.includes("orders/paid") && !topic.includes("order"))
ApiTopicSkipped(t) ==
  ~Truthy(t) \/ (~Includes(t, "orders/paid") /\ ~Includes(t, "order"))

ApiHandler(r) ==
  IF r.method # "POST" THEN Outcome(405, FALSE, FALSE)
  ELSE IF ApiDomainRejected(r) THEN Outcome(401, FALSE, FALSE)
  ELSE IF VerifyShopifyHmac(r) = "false" THEN Outcome(401, FALSE, secret # "")
  ELSE IF VerifyShopifyHmac(r) = "throw" THEN Outcome(200, FALSE, TRUE)
  ELSE IF Bodies[r.body].kind = "malformed" THEN Outcome(200, FALSE, TRUE)
  ELSE IF ApiTopicSkipped(r.topic) THEN Outcome(200, FALSE, TRUE)
  ELSE Outcome(200, TRUE, TRUE)

PartHandler(r) ==
  IF r.method # "POST" THEN Outcome(405, FALSE, FALSE)
  ELSE IF PartDomainRejected(r) THEN Outcome(403, FALSE, FALSE)
  ELSE IF secret = "" THEN Outcome(500, FALSE, FALSE)
  ELSE IF ~TimingSafeEqualStr(r) THEN Outcome(403, FALSE, TRUE)
  ELSE IF ToLower(Or(r.topic, "")) # "orders/paid" THEN Outcome(200, FALSE, TRUE)
  ELSE IF Bodies[r.body].kind = "malformed" THEN Outcome(400, FALSE, TRUE)
  ELSE IF Bodies[r.body].kind = "null" THEN Outcome(0, FALSE, TRUE)
  ELSE IF ~Truthy(PartOrderId(Bodies[r.body])) \/ ~Positive(PartTotalPaid(Bodies[r.body]))
    THEN Outcome(200, FALSE, TRUE)
  ELSE Outcome(200, TRUE, TRUE)

Handler(r) == IF variant = "api" THEN ApiHandler(r) ELSE PartHandler(r)


(***************************************************************************)
(* Storage: the statements of ensureTable and the INSERT.                  *)
(***************************************************************************)
\* the DDL statements ensureTable issues, in order, one per sql call
DdlSteps ==
  IF variant = "api"
  THEN << {"lsc_cashback_events"}, {"idx_lsc_cashback_email"}, {"idx_lsc_cashback_created"} >>
  ELSE << {"lsc_cashback_events", "idx_lsc_cashback_email", "idx_lsc_cashback_created"} >>

\* the labels of the i-th DDL call: issued, and executed
DdlPc(i) == IF i = 1 THEN "ddl1" ELSE IF i = 2 THEN "ddl2" ELSE "ddl3"
DdlDone(i) == IF i = 1 THEN "ddl1x" ELSE IF i = 2 THEN "ddl2x" ELSE "ddl3x"
DdlIndex(l) ==
  IF l \in {"ddl1", "ddl1x"} THEN 1 ELSE IF l \in {"ddl2", "ddl2x"} THEN 2 ELSE 3

RowsOf(t, o) == {row \in t : row.order_id = o}

NewRow(v) ==
  [order_id |-> v.order_id, created_at |-> now, shop_domain |-> v.shop_domain,
   customer_email |-> v.customer_email, currency |-> v.currency,
   total_paid |-> v.total_paid, cashback_percent |-> v.cashback_percent,
   cashback_amount |-> v.cashback_amount, raw |-> v.raw]

\* an upsert that replaces the whole row, created_at included
UpsertReplacingRow(t, v) ==
  {row \in t : row.order_id # v.order_id} \cup {NewRow(v)}

\* an upsert that leaves an existing row as it is
UpsertKeepingRow(t, v) ==
  IF RowsOf(t, v.order_id) = {} THEN t \cup {NewRow(v)} ELSE t

\* INSERT ... ON CONFLICT (order_id) DO UPDATE SET <every column but created_at>
Upsert(t, v) ==
  IF RowsOf(t, v.order_id) = {} THEN t \cup {NewRow(v)}
  ELSE {IF row.order_id = v.order_id
        THEN [NewRow(v) EXCEPT !.created_at = row.created_at]
        ELSE row : row \in t}

\* an insert that takes the amounts of the later delivery on conflict
InsertUpdatingAmount(t, v) ==
  IF RowsOf(t, v.order_id) = {} THEN t \cup {NewRow(v)}
  ELSE {IF row.order_id = v.order_id
        THEN [row EXCEPT !.total_paid = v.total_paid,
                         !.cashback_amount = v.cashback_amount]
        ELSE row : row \in t}

\* INSERT ... ON CONFLICT (order_id) DO NOTHING
InsertIfAbsent(t, v) ==
  IF RowsOf(t, v.order_id) = {} THEN t \cup {NewRow(v)} ELSE t

\* an INSERT with no conflict clause into a table with no primary key
InsertNoConflict(t, v) == t \cup {NewRow(v)}

InsertInto(t, v) == IF variant = "api" THEN Upsert(t, v) ELSE InsertIfAbsent(t, v)

(***************************************************************************)
(* Actions.  The handler runs in turns of the event loop: a turn ends at   *)
(* each await (of the request body, of a sql call) and turns of other      *)
(* invocations, and the database's execution of pending statements, come   *)
(* in between.  An invocation is suspended at                              *)
(*   "body"             await readRawBody(req)                             *)
(*                      (the stream either ends or fails)                  *)
(*   "ddl1" .. "ddl3"   a DDL call of ensureTable, issued                  *)
(*   "ddl1x" .. "ddl3x" the same, executed, its promise not yet settled    *)
(*   "insert"           the INSERT, issued                                 *)
(*   "inserted"         the INSERT, executed, its promise not yet settled  *)
(***************************************************************************)
\* What an invocation leaves behind when it ends: the response status (0 when
\* the handler threw and sent none), whether an HMAC was computed, and
\* whether a storage call rejected.
Response(r, status, h) ==
  [n |-> last.n + 1, req |-> r, status |-> status, hmac |-> h, dbError |-> FALSE]

\* the storage calls outside any try block: the rejection leaves the handler
UncaughtResponse(r) ==
  [n |-> last.n + 1, req |-> r, status |-> 0, hmac |-> TRUE, dbError |-> TRUE]

\* catch (err) { console.error(...); return res.status(200)... } in "api";
\* catch (e) { console.error(...) } followed by res.status(200) in "part"
CaughtResponse(r) ==
  [n |-> last.n + 1, req |-> r, status |-> 200, hmac |-> TRUE, dbError |-> TRUE]

Init ==
  /\ variant \in Variants
  /\ secret \in Secrets
  /\ allowedDomain \in AllowedDomains
  /\ percentEnv \in Percents
  /\ tableReady = FALSE
  /\ schema = {}
  /\ table = {}
  /\ now = 1
  /\ pc = [p \in Procs |-> "idle"]
  /\ req = [p \in Procs |-> NoReq]
  /\ last = [n |-> 0, req |-> NoReq, status |-> 0, hmac |-> FALSE, dbError |-> FALSE]
  /\ delivered = 0

\* The handler is entered: it tests the method and, for a POST, awaits the
\* body.  Nothing else of the request is read in this turn.  Invocations are
\* anonymous: a new one takes the first free slot.
Enter(p) ==
  /\ pc[p] = "idle"
  /\ \A q \in Procs : q < p => pc[q] # "idle"
  /\ delivered < MaxRequests
  /\ delivered' = delivered + 1
  /\ \/ /\ pc' = [pc EXCEPT ![p] = "body"]
        /\ last' = last
     \/ /\ \E r \in Requests :
             /\ r.method # "POST"
             /\ last' = Response(r, Handler(r).status, Handler(r).hmac)
        /\ pc' = pc
  /\ UNCHANGED <<env, tableReady, schema, table, now, req>>

\* The body has arrived: the handler reads the headers and runs to its first
\* storage call, or to its response when it returns (or throws) before any.
\* ensureTable reads tableReady in this turn.
Receive(p) ==
  /\ pc[p] = "body"
  /\ \E r \in Requests :
       /\ r.method = "POST"
       /\ Bodies[r.body].kind # "aborted"
       /\ IF Handler(r).proceed
          THEN /\ pc' = [pc EXCEPT ![p] = IF tableReady THEN "insert" ELSE "ddl1"]
               /\ req' = [req EXCEPT ![p] = r]
               /\ last' = last
          ELSE /\ last' = Response(r, Handler(r).status, Handler(r).hmac)
               /\ pc' = [pc EXCEPT ![p] = "idle"]
               /\ req' = req
  /\ UNCHANGED <<env, tableReady, schema, table, now, delivered>>

\* The request stream fails while the handler awaits the body, and
\* readRawBody rejects.  In "api" the await is inside the try: the catch
\* block logs and answers 200.  In "part" it is outside any try: the handler
\* rejects and sends nothing.  No header has been read and no HMAC computed.
BodyError(p) ==
  /\ pc[p] = "body"
  /\ \E r \in Requests :
       /\ r.method = "POST"
       /\ Bodies[r.body].kind = "aborted"
       /\ last' = Response(r, IF variant = "api" THEN 200 ELSE 0, FALSE)
  /\ pc' = [pc EXCEPT ![p] = "idle"]
  /\ UNCHANGED <<env, tableReady, schema, table, now, req, delivered>>

\* The database executes the pending DDL call of invocation p.
DdlExec(p) ==
  /\ pc[p] \in {"ddl1", "ddl2", "ddl3"}
  /\ schema' = schema \cup DdlSteps[DdlIndex(pc[p])]
  /\ pc' = [pc EXCEPT ![p] = DdlDone(DdlIndex(pc[p]))]
  /\ UNCHANGED <<env, tableReady, table, now, req, last, delivered>>

\* an ensureTable that sets tableReady as soon as its first sql call succeeds
DdlOkFlagFirst(p) ==
  /\ pc[p] \in {"ddl1x", "ddl2x", "ddl3x"}
  /\ LET i == DdlIndex(pc[p]) IN
       /\ tableReady' = TRUE
       /\ pc' = [pc EXCEPT ![p] = IF i = Len(DdlSteps) THEN "insert" ELSE DdlPc(i + 1)]
  /\ UNCHANGED <<env, schema, table, now, req, last, delivered>>

\* The promise of an executed DDL call settles and ensureTable resumes: it
\* issues its next call, or after the last one sets tableReady and returns
\* to the handler, which issues the INSERT.
DdlOk(p) ==
  /\ pc[p] \in {"ddl1x", "ddl2x", "ddl3x"}
  /\ LET i == DdlIndex(pc[p]) IN
       IF i = Len(DdlSteps)
       THEN /\ tableReady' = TRUE
            /\ pc' = [pc EXCEPT ![p] = "insert"]
       ELSE /\ tableReady' = tableReady
            /\ pc' = [pc EXCEPT ![p] = DdlPc(i + 1)]
  /\ UNCHANGED <<env, schema, table, now, req, last, delivered>>

\* The database executes the pending INSERT of invocation p.
InsertExec(p) ==
  /\ pc[p] = "insert"
  /\ "lsc_cashback_events" \in schema
  /\ table' = InsertInto(table, InsertValues(req[p]))
  /\ now' = now + 1
  /\ pc' = [pc EXCEPT ![p] = "inserted"]
  /\ UNCHANGED <<env, tableReady, schema, req, last, delivered>>

\* The promise of the executed INSERT settles; the handler logs and answers
\* 200.
InsertOk(p) ==
  /\ pc[p] = "inserted"
  /\ last' = Response(req[p], 200, TRUE)
  /\ pc' = [pc EXCEPT ![p] = "idle"]
  /\ req' = [req EXCEPT ![p] = NoReq]
  /\ UNCHANGED <<env, tableReady, schema, table, now, delivered>>

\* The pending sql call rejects without effect; the catch block logs and the
\* handler answers 200.
StorageError(p) ==
  /\ pc[p] \in {"ddl1", "ddl2", "ddl3", "insert"}
  /\ last' = CaughtResponse(req[p])
  /\ pc' = [pc EXCEPT ![p] = "idle"]
  /\ req' = [req EXCEPT ![p] = NoReq]
  /\ UNCHANGED <<env, tableReady, schema, table, now, delivered>>

\* The module is loaded again over the same database (a new instance of the
\* function, no invocation in flight): tableReady starts false.
Restart ==
  /\ \A p \in Procs : pc[p] = "idle"
  /\ tableReady
  /\ tableReady' = FALSE
  /\ UNCHANGED <<env, schema, table, now, pc, req, last, delivered>>

Next ==
  \/ \E p \in Procs : Enter(p)
  \/ \E p \in Procs : Receive(p)
  \/ \E p \in Procs : BodyError(p)
  \/ \E p \in Procs : DdlExec(p)
  \/ \E p \in Procs : DdlOk(p)
  \/ \E p \in Procs : InsertExec(p)
  \/ \E p \in Procs : InsertOk(p)
  \/ \E p \in Procs : StorageError(p)
  \/ Restart

Spec == Init /\ [][Next]_vars


(***************************************************************************)
(* Vocabulary of the properties.                                           *)
(***************************************************************************)
\* this step ends an invocation; last' tells which request and how
Answered == last'.n # last.n

\* this step is the database executing the INSERT of invocation p
Executes(p) == pc[p] = "insert" /\ pc'[p] = "inserted"

\* the header is the base64 HMAC-SHA256 of the raw body under the secret
ValidSignature(r) == secret # "" /\ r.hmac = Digest(secret, r.body)

PassesDomainCheck(r) ==
  IF variant = "api" THEN ~ApiDomainRejected(r) ELSE ~PartDomainRejected(r)

\* the body of the request has arrived in full
Delivered(r) == Bodies[r.body].kind # "aborted"

\* a POST request whose body has arrived and that passes the domain and the
\* signature check
Verified(r) ==
  /\ r.method = "POST"
  /\ Delivered(r)
  /\ PassesDomainCheck(r)
  /\ ValidSignature(r)

\* the order identifier and the paid amount a body carries: the first
\* non-empty of id, order_id; of total_price, current_total_price and the
\* nested shop-money amount
CarriedOrderId(b) == Or(b.id, Or(b.order_id, ""))
CarriedAmount(b) ==
  NumberOf(Or(b.total_price, Or(b.current_total_price, Or(b.sm_amount, "0"))))

\* c is total * pct / 100 rounded to the cent: the nearest cent, and on an
\* exact half cent the upper one (half-up) or the even one (banker's)
Rounded(c, total, pct) ==
  LET lower == (total * pct) \div 100
      rest == (total * pct) % 100
  IN IF rest < 50 THEN c = lower
     ELSE IF rest > 50 THEN c = lower + 1
     ELSE c = lower + 1 \/ (c = lower /\ lower % 2 = 0)

AuthFailure == {401, 403}


(***************************************************************************)
(* C1: the table holds at most one row per order_id in every state, and    *)
(* once an order has a row, every later step leaves exactly one row for    *)
(* that order_id.                                                          *)
(***************************************************************************)
C1_OneRowPerOrder ==
  [][ /\ \A x, y \in table' : x.order_id = y.order_id => x = y
      /\ \A x \in table : Cardinality(RowsOf(table', x.order_id)) = 1 ]_vars

\* two INSERTs have executed and both were for the same order
C1_Witness == now = 3 /\ Cardinality(table) = 1

(***************************************************************************)
(* C2: a POST request from the allowed domain, with the secret configured, *)
(* whose body has arrived and whose signature header is not the HMAC of    *)
(* that body is answered 401 or 403 and never gets to a storage call.      *)
(***************************************************************************)
BadSignature(r) ==
  /\ r.method = "POST"
  /\ Delivered(r)
  /\ secret # ""
  /\ allowedDomain # ""
  /\ ShopDomain(r) = allowedDomain
  /\ ~ValidSignature(r)

C2_BadSignatureRejected ==
  [][ /\ (Answered /\ BadSignature(last'.req)) => last'.status \in AuthFailure
      /\ \A p \in Procs : ~BadSignature(req'[p]) ]_vars

(***************************************************************************)
(* C3: a verified orders/paid request that carries a non-empty order       *)
(* identifier and a positive paid amount, and whose storage calls succeed, *)
(* is answered with a row for its order in the table; when its INSERT      *)
(* executes and the order is not yet in the table, exactly one row is      *)
(* added, with total_paid the paid amount, cashback_percent the configured *)
(* percent (5 when that is not finite) and cashback_amount =               *)
(* round(total_paid * percent / 100, 2).                                   *)
(***************************************************************************)
CarriesOrder(r) ==
  /\ Verified(r)
  /\ r.topic = "orders/paid"
  /\ Bodies[r.body].kind = "object"
  /\ Truthy(CarriedOrderId(Bodies[r.body]))
  /\ Positive(CarriedAmount(Bodies[r.body]))

C3_NewOrderRecorded ==
  [][ /\ (Answered /\ CarriesOrder(last'.req) /\ ~last'.dbError)
           => /\ last'.status = 200
              /\ RowsOf(table', CarriedOrderId(Bodies[last'.req.body])) # {}
      /\ \A p \in Procs :
           (/\ Executes(p)
            /\ CarriesOrder(req[p])
            /\ RowsOf(table, CarriedOrderId(Bodies[req[p].body])) = {})
           => \E row \in table' :
                /\ row \notin table
                /\ table' = table \cup {row}
                /\ row.order_id = CarriedOrderId(Bodies[req[p].body])
                /\ row.total_paid = CarriedAmount(Bodies[req[p].body])
                /\ row.cashback_percent = (IF percentEnv = NaN THEN 5 ELSE percentEnv)
                /\ Rounded(row.cashback_amount, row.total_paid, row.cashback_percent) ]_vars

(***************************************************************************)
(* C4: a verified request whose topic is not orders/paid is answered 200   *)
(* and its handling leaves the table as it was.                            *)
(***************************************************************************)
OtherTopic(r) == Verified(r) /\ r.topic # "orders/paid"

C4_OtherTopicSkipped ==
  [][ /\ (Answered /\ OtherTopic(last'.req)) => last'.status = 200
      /\ \A p \in Procs : (Executes(p) /\ OtherTopic(req[p])) => table' = table ]_vars

(***************************************************************************)
(* C5: a verified orders/paid request whose paid amount is absent, zero,   *)
(* negative or not a number is answered 200 and its handling leaves the    *)
(* table as it was; no row of the table has total_paid <= 0.               *)
(***************************************************************************)
NoAmount(r) ==
  /\ Verified(r)
  /\ r.topic = "orders/paid"
  /\ Bodies[r.body].kind = "object"
  /\ ~Positive(CarriedAmount(Bodies[r.body]))

C5_NoAmountSkipped ==
  [][ /\ (Answered /\ NoAmount(last'.req)) => last'.status = 200
      /\ \A p \in Procs : (Executes(p) /\ NoAmount(req[p])) => table' = table
      /\ \A row \in table' : Positive(row.total_paid) ]_vars

(***************************************************************************)
(* C6: a verified orders/paid request whose body has neither a non-empty   *)
(* id nor a non-empty order_id is answered 200 and its handling leaves the *)
(* table as it was; no row of the table has the empty string as order_id.  *)
(***************************************************************************)
NoOrderId(r) ==
  /\ Verified(r)
  /\ r.topic = "orders/paid"
  /\ Bodies[r.body].kind = "object"
  /\ ~Truthy(CarriedOrderId(Bodies[r.body]))

C6_NoOrderIdSkipped ==
  [][ /\ (Answered /\ NoOrderId(last'.req)) => last'.status = 200
      /\ \A p \in Procs : (Executes(p) /\ NoOrderId(req[p])) => table' = table
      /\ \A row \in table' : row.order_id # "" ]_vars

(***************************************************************************)
(* C7: a verified orders/paid request whose body is not valid JSON is      *)
(* answered 400 and never gets to a storage call.                          *)
(***************************************************************************)
MalformedJson(r) ==
  /\ Verified(r)
  /\ r.topic = "orders/paid"
  /\ Bodies[r.body].kind = "malformed"

C7_MalformedJsonRejected ==
  [][ /\ (Answered /\ MalformedJson(last'.req)) => last'.status = 400
      /\ \A p \in Procs : ~MalformedJson(req'[p]) ]_vars

(***************************************************************************)
(* C8: with no secret configured no request gets past verification: no     *)
(* invocation reaches a storage call, every response has status 405, 401,  *)
(* 403 or 500, and the table never changes.                                *)
(***************************************************************************)
C8_NoSecretFailsClosed ==
  [][ secret = ""
      => /\ table' = table
         /\ \A p \in Procs : pc'[p] \in {"idle", "body"}
         /\ Answered => last'.status \in {405, 401, 403, 500} ]_vars

(***************************************************************************)
(* C9: for every configuration of the allowed domain, the empty one        *)
(* included, a POST request whose lower-cased domain header differs from   *)
(* it is answered 401 or 403 before any HMAC is computed and never gets to *)
(* a storage call.                                                         *)
(***************************************************************************)
OtherDomain(r) == r.method = "POST" /\ ShopDomain(r) # allowedDomain

C9_AnyDomainMismatchRejected ==
  [][ /\ (Answered /\ OtherDomain(last'.req))
           => (last'.status \in AuthFailure /\ ~last'.hmac)
      /\ \A p \in Procs : ~OtherDomain(req'[p]) ]_vars

(***************************************************************************)
(* C10: when a storage call of ensureTable or the INSERT rejects, the      *)
(* handler still answers 200 (it does not throw) and the table is left as  *)
(* it was: the invocation ends from a call that was pending, not executed. *)
(***************************************************************************)
C10_StorageErrorSwallowed ==
  [][ (Answered /\ last'.dbError)
      => /\ last'.status = 200
         /\ table' = table
         /\ \E p \in Procs : /\ pc[p] \in {"ddl1", "ddl2", "ddl3", "insert"}
                             /\ pc'[p] = "idle"
                             /\ req[p] = last'.req ]_vars

\* an INSERT or DDL call has failed for a verified orders/paid request on top
\* of an existing row
C10_Witness ==
  /\ last.dbError
  /\ last.status = 200
  /\ Verified(last.req)
  /\ last.req.topic = "orders/paid"
  /\ table # {}


(***************************************************************************)
(* C11: a status other than 200 is sent only for a non-POST method (405),  *)
(* a malformed JSON body (400), a domain mismatch, a signature mismatch or *)
(* a missing secret (401, 403, 500); an irrelevant topic, missing order    *)
(* data and a storage failure are answered 200.                            *)
(***************************************************************************)
C11_Non200OnlyForGateErrors ==
  [][ Answered =>
        /\ last'.status = 405 => last'.req.method # "POST"
        /\ last'.status = 400 => Bodies[last'.req.body].kind = "malformed"
        /\ last'.status \in {401, 403, 500}
             => (ShopDomain(last'.req) # allowedDomain \/ ~ValidSignature(last'.req))
        /\ last'.dbError => last'.status = 200
        /\ (Verified(last'.req) /\ last'.req.topic # "orders/paid")
             => last'.status = 200
        /\ (/\ Verified(last'.req)
            /\ last'.req.topic = "orders/paid"
            /\ Bodies[last'.req.body].kind # "malformed"
            /\ \/ ~Truthy(CarriedOrderId(Bodies[last'.req.body]))
               \/ ~Positive(CarriedAmount(Bodies[last'.req.body])))
             => last'.status = 200 ]_vars

(***************************************************************************)
(* C12: a signature header that is valid for one body, sent by a POST      *)
(* request that passes the domain check with any other body (arrived in    *)
(* full), fails verification: the request is answered 401 or 403 and never *)
(* gets to a storage call.                                                 *)
(***************************************************************************)
\* the header is Digest(secret, b) for a body b other than the one sent
SignedForAnotherBody(r) ==
  /\ secret # ""
  /\ r.hmac.kind = "digest"
  /\ r.hmac.key = secret
  /\ r.hmac.body # r.body

C12_TamperedBodyRejected ==
  [][ /\ (/\ Answered
          /\ last'.req.method = "POST"
          /\ Delivered(last'.req)
          /\ PassesDomainCheck(last'.req)
          /\ SignedForAnotherBody(last'.req))
         => (last'.status \in AuthFailure /\ table' = table)
      /\ \A p \in Procs : ~SignedForAnotherBody(req'[p]) ]_vars

\* a header valid for another body has been turned away from an orders/paid
\* request of the allowed domain, on top of an existing row
C12_Witness ==
  /\ last.req.method = "POST"
  /\ Delivered(last.req)
  /\ PassesDomainCheck(last.req)
  /\ SignedForAnotherBody(last.req)
  /\ last.req.topic = "orders/paid"
  /\ last.status \in AuthFailure
  /\ table # {}

(***************************************************************************)
(* C13: a row's created_at is the time of the first successful insert for  *)
(* its order_id and no later step changes it; no step deletes a row.       *)
(***************************************************************************)
C13_CreatedAtSetOnce ==
  [][ /\ \A x \in table :
           \E y \in table' : y.order_id = x.order_id /\ y.created_at = x.created_at
      /\ \A y \in table' :
           RowsOf(table, y.order_id) = {} => y.created_at = now ]_vars

\* a second INSERT for the order of an existing row has executed
C13_Witness ==
  /\ now = 3
  /\ last.status = 200
  /\ ~last.dbError
  /\ \E row \in table : /\ row.created_at = 1
                        /\ row.order_id = OrderIdOf(Bodies[last.req.body])
  /\ Cardinality(table) = 1

(***************************************************************************)
(* C14: the method, domain and topic checks all run before signature       *)
(* verification: a POST request (its body arrived) that passes the domain  *)
(* check and whose topic neither variant takes for an order-paid topic is  *)
(* answered 200, nothing is stored and no HMAC is computed for it,         *)
(* whatever its header.                                                    *)
(***************************************************************************)
\* a topic neither variant recognises
UnrecognisedTopic(t) == ApiTopicSkipped(t) /\ ToLower(Or(t, "")) # "orders/paid"

C14_TopicCheckedBeforeSignature ==
  [][ (/\ Answered
       /\ last'.req.method = "POST"
       /\ Delivered(last'.req)
       /\ PassesDomainCheck(last'.req)
       /\ UnrecognisedTopic(last'.req.topic))
      => (last'.status = 200 /\ ~last'.hmac /\ table' = table) ]_vars

(***************************************************************************)
(* C15: every invocation ends with a response and without a throw,         *)
(* whatever the method, the headers and the body, a verified orders/paid   *)
(* body that is not a JSON object included, and whether storage succeeds   *)
(* or fails.                                                               *)
(***************************************************************************)
C15_AlwaysAnswered ==
  [][ Answered => last'.status # 0 ]_vars

(***************************************************************************)
(* C16: tableReady is true only once a provisioning run has completed all  *)
(* its statements; concurrent first requests may both provision, and a run *)
(* over a complete schema changes neither the schema nor any row; an       *)
(* invocation reaches its INSERT only from the successful end of its own   *)
(* provisioning run or after it saw tableReady true; a failed provisioning *)
(* leaves tableReady as it was, and a request that finds it false          *)
(* provisions again.  Within one process tableReady never falls back: it   *)
(* is false again only after the module has been loaded anew.              *)
(***************************************************************************)
SchemaObjects ==
  {"lsc_cashback_events", "idx_lsc_cashback_email", "idx_lsc_cashback_created"}

Provisioning(l) == l \in {"ddl1", "ddl2", "ddl3", "ddl1x", "ddl2x", "ddl3x"}

C16_ProvisioningRaceSafe ==
  [][ /\ tableReady' => schema' = SchemaObjects
      /\ (tableReady' /\ ~tableReady)
           => \E p \in Procs : /\ pc[p] = DdlDone(Len(DdlSteps))
                               /\ pc'[p] = "insert"
      /\ (tableReady /\ ~tableReady')
           => \A p \in Procs : pc[p] = "idle" /\ pc'[p] = "idle"
      /\ schema = SchemaObjects => schema' = schema
      /\ \A p \in Procs :
           /\ (Provisioning(pc[p]) /\ pc'[p] # pc[p]) => table' = table
           /\ pc'[p] \in {"insert", "inserted"} => tableReady'
           /\ (pc'[p] = "insert" /\ pc[p] # "insert")
                => \/ pc[p] = "body" /\ tableReady
                   \/ pc[p] = DdlDone(Len(DdlSteps)) /\ schema = SchemaObjects
           /\ (Provisioning(pc[p]) /\ pc'[p] = "idle")
                => (tableReady' = tableReady /\ last'.dbError /\ schema' = schema)
           /\ (pc[p] = "body" /\ pc'[p] \notin {"body", "idle"})
                => (pc'[p] = IF tableReady THEN "insert" ELSE "ddl1") ]_vars

\* two first requests both started provisioning; one run has completed and
\* its row is stored, the other is still under way over the complete schema
C16_Witness ==
  /\ tableReady
  /\ table # {}
  /\ schema = SchemaObjects
  /\ \E p \in Procs : Provisioning(pc[p])

(***************************************************************************)
(* C17: in part_000 no step changes or removes a stored row, whatever the  *)
(* later deliveries for its order carry.  When id 1001 with total_price    *)
(* 200.00 is stored at percent 5 and the INSERT of id 1001 with            *)
(* total_price 250.00 then executes, the one row of order 1001 still has   *)
(* total_paid 200.00 and cashback_amount 10.00.                            *)
(***************************************************************************)
C17_InsertIfAbsent ==
  [][ variant = "part" =>
        /\ \A x \in table : x \in table'
        /\ \A p \in Procs :
             (/\ Executes(p)
              /\ req[p].body = 2
              /\ CashbackPercent = 5
              /\ \E x \in table : x.order_id = "1001" /\ x.raw = 1)
             => /\ Cardinality(RowsOf(table', "1001")) = 1
                /\ \A y \in RowsOf(table', "1001") :
                     /\ y.total_paid = 20000
                     /\ y.cashback_amount = 1000
                     /\ y.raw = 1 ]_vars

\* 1001 / 200.00 was stored, then the INSERT of 1001 / 250.00 executed
C17_Witness ==
  /\ variant = "part"
  /\ CashbackPercent = 5
  /\ now = 3
  /\ last.req.body = 2
  /\ last.status = 200
  /\ ~last.dbError
  /\ \E row \in table : /\ row.order_id = "1001"
                        /\ row.raw = 1
                        /\ row.created_at = 1
                        /\ row.total_paid = 20000
                        /\ row.cashback_amount = 1000

(***************************************************************************)
(* C18: in the api handler every INSERT that executes leaves exactly one   *)
(* row for its order, whose shop_domain, customer_email, currency,         *)
(* total_paid, cashback_percent, cashback_amount and raw are the values of *)
(* the request of that INSERT; rows of other orders stay as they are, and  *)
(* no other step changes the table.  So a row always has the values of the *)
(* delivery whose INSERT executed last, whichever was answered last: after *)
(* 1001 / 200.00 and then 1001 / 250.00 at percent 5 the row has           *)
(* total_paid 250.00 and cashback_amount 12.50.                            *)
(***************************************************************************)
\* the columns of a row that an INSERT statement supplies
SuppliedColumns(row) ==
  [order_id |-> row.order_id, shop_domain |-> row.shop_domain,
   customer_email |-> row.customer_email, currency |-> row.currency,
   total_paid |-> row.total_paid, cashback_percent |-> row.cashback_percent,
   cashback_amount |-> row.cashback_amount, raw |-> row.raw]

C18_UpsertLastWins ==
  [][ variant = "api" =>
        /\ (\A p \in Procs : ~Executes(p)) => table' = table
        /\ \A p \in Procs : Executes(p) =>
             LET v == InsertValues(req[p]) IN
             /\ Cardinality(RowsOf(table', v.order_id)) = 1
             /\ \A y \in RowsOf(table', v.order_id) : SuppliedColumns(y) = v
             /\ \A o \in {x.order_id : x \in table \cup table'} \ {v.order_id} :
                  RowsOf(table', o) = RowsOf(table, o)
             /\ (/\ req[p].body = 2
                 /\ CashbackPercent = 5
                 /\ \E x \in table : x.raw = 1)
                  => \A y \in RowsOf(table', "1001") :
                       y.total_paid = 25000 /\ y.cashback_amount = 1250 ]_vars

\* the INSERT of 1001 / 200.00 executed, then that of 1001 / 250.00, and the
\* first delivery was answered after the second
C18_Witness ==
  /\ variant = "api"
  /\ CashbackPercent = 5
  /\ now = 3
  /\ last.n = 2
  /\ last.req.body = 1
  /\ last.status = 200
  /\ ~last.dbError
  /\ Cardinality(table) = 1
  /\ \E row \in table : /\ row.order_id = "1001"
                        /\ row.created_at = 1
                        /\ row.raw = 2
                        /\ row.total_paid = 25000
                        /\ row.cashback_amount = 1250

(***************************************************************************)
(* C19: the total_paid of every stored row is the first non-empty of the   *)
(* total_price, the current_total_price and the nested shop-money amount   *)
(* of the body it was computed from.                                       *)
(***************************************************************************)
C19_AmountFallbackOrder ==
  \A row \in table : row.total_paid = CarriedAmount(Bodies[row.raw])

(***************************************************************************)
(* C20: every stored row is the complete set of values of one delivered    *)
(* request, never a mix of two.  A step leaves each row either as it was   *)
(* or with all its supplied columns equal to the values of the request     *)
(* whose INSERT executed; so in every row cashback_amount is               *)
(* total_paid * cashback_percent / 100 rounded to the cent, and order_id   *)
(* and total_paid are those extracted from the body kept in raw.           *)
(***************************************************************************)
C20_RowFromOneDelivery ==
  [][ \A y \in table' :
        /\ \/ y \in table
           \/ \E p \in Procs : Executes(p) /\ SuppliedColumns(y) = InsertValues(req[p])
        /\ IF y.total_paid = NaN
           THEN y.cashback_amount = NaN
           ELSE Rounded(y.cashback_amount, y.total_paid, y.cashback_percent)
        /\ y.order_id = OrderIdOf(Bodies[y.raw])
        /\ y.total_paid = TotalPaidOf(Bodies[y.raw]) ]_vars

=============================================================================
